---- MODULE Spec2Model ----
(***************************************************************************)
(* Model of server/autotest_server.py: the rq jobs run_test and            *)
(* update_test_scripts, executed by concurrent workers that share a redis  *)
(* store (the tester pool USER_LIST, the hash of current test script       *)
(* directories) and a file system (versioned test script directories,      *)
(* advisory flock locks on them).                                          *)
(***************************************************************************)
EXTENDS Integers, Sequences, FiniteSets, TLC

\* ------------------------------------------------------------------ bounds
MaxTime == 1        \* the clock int(time.time()) takes the values 0..MaxTime
MaxJobs == 4        \* jobs the workers start, all together
MaxPoolJobs == 2    \* jobs the workers start where only run_test is run, all together
NumTesters == 1     \* identities provisioned in USER_LIST
MaxScripts == 2     \* entries of test_scripts in the sequential specification
MaxDur == 2         \* longest finite running time of a script
MaxEnqueued == 2    \* jobs put on the rq queues, all together
MaxLen == 4         \* longest json_string given to loads_partial_json
MaxNesting == 2     \* nested arrays the decoder follows before RecursionError
                    \* (the interpreter's recursion limit, scaled to MaxLen)

Runners == {1, 2}   \* workers executing run_test
Readers == {1}      \* the run_test worker of the single-runner specifications
Writers == {3, 4}   \* workers executing update_test_scripts
Workers == Runners \cup Writers

\* ------------------------------------------------------- values of the code
NoDir == -1         \* hget of a key that was never set: None
NoInode == 0        \* no directory / no open descriptor
NoTimeout == 0      \* timeout None
Forever == MaxDur + 1   \* a script that never ends by itself

Paths == 0..MaxTime
NoUser == [id |-> 0, username |-> FALSE]

Shapes == {"empty", "flat", "nested"}   \* what a source tree holds at its top level

NoEntry == -1       \* no file or directory at the path
Root == "."         \* tests_path itself
ModeTestsPath == 1016   \* 0o1770, rwxrwx--T
ModeExec == 493     \* 0o755, rwxr-xr-x
ExecBits == 73      \* 0o111
ModeNoExec == 420   \* 0o644, rw-r--r--
SourceMode600 == 384    \* 0o600
SourceMode644 == 420    \* 0o644
SourceMode777 == 511    \* 0o777

\* The entries tests_path may hold after the copies, by their path relative to
\* tests_path: a file, a subdirectory and a file in the subdirectory.
Entries == {"a", "d", "d/b"}
EntryKind(e) == IF e = "d" THEN "d" ELSE "f"
Parent(e) == IF e = "d/b" THEN "d" ELSE Root

NoField == -1       \* hget of a field the hash does not hold: None
FailedQueue == "failed"                  \* rq.queue.FailedQueue()
QueueAll == <<"batch", "single", FailedQueue>>   \* rq.Queue.all()
Queues == {QueueAll[i] : i \in DOMAIN QueueAll}
JobQueues == Queues \ {FailedQueue}      \* the queues jobs are enqueued on
JobKinds == {"run_test", "update_test_scripts"}
NoJob == [kind |-> "none", origin |-> "none"]
NoStat == [start |-> NoField, last |-> NoField, count |-> NoField]   \* no field is set
ClearedStat == [start |-> NoField, last |-> 0, count |-> 0]   \* after clear_pop_interval_stat
NoAvg == [none |-> TRUE, num |-> 0, den |-> 1]      \* get_avg_pop_interval returns None

VARIABLES
    now,            \* int(time.time())
    provisioned,    \* the identities put into USER_LIST at setup
    userList,       \* redis list config.USER_LIST
    scriptPtr,      \* redis hash entry CURRENT_TEST_SCRIPT_HASH[key]
    fsInode,        \* path of a script directory -> the directory there, or NoInode
    leaked,         \* <<directory, mode>> of descriptors never closed, lock still held
    pc,             \* where each worker is in its job
    jobs,           \* jobs started so far
    exc,            \* the exception propagating out of the worker's job, or "none"
    fd,             \* the directory the worker's open descriptor refers to
    lockMode,       \* flock mode held through fd: "none", "sh", "ex"
    user_data,      \* run_test: the identity popped by tester_user
    test_script_dir,\* copy_test_script_files: the directory read from the pointer
    test_scripts,   \* run_test: the argument test_scripts
    results,        \* run_test: results
    error,          \* run_test: error
    started,        \* run_test_scripts: file names whose process was started or attempted
    killed,         \* run_test_scripts: file names whose process group got SIGKILL
    scriptLog,      \* run_test_scripts: per started script, how its process behaved
    nReports,       \* calls of report in the current run_test
    nPosts,         \* requests.post calls in the current run_test
    nFiles,         \* output.json files opened for writing in the current run_test
    new_dir,        \* update_test_scripts: new_dir
    old_test_script_dir, \* update_test_scripts: old_test_script_dir
    queueLen,       \* rq: jobs waiting on each queue
    enqueued,       \* jobs put on the queues so far
    popHash,        \* redis hash config.POP_HASH: per queue the fields start, last, count
    popLog,         \* per queue, the times of update_pop_interval_stat since its last clear
    tpc,            \* telemetry: where each worker is in its job and in clean_after
    job,            \* telemetry: the worker's current job: its kind and job.origin
    stat_now,       \* update_pop_interval_stat: now
    avg_pop_interval,   \* run_test: avg_pop_interval
    raised,         \* clean_after: whether func raised
    nCleanUps,      \* clean_after: calls of clean_up for the current job
    todo,           \* clean_up: the queues of rq.Queue.all() still to be visited
    sawEmpty,       \* clean_up: the queues whose is_empty() returned True
    cleared,        \* clean_up: the queues clear_pop_interval_stat was completed for
    hashBefore,     \* clean_up: POP_HASH as it was when clean_up was called
    json_string,    \* loads_partial_json: json_string, a sequence of characters
    json_i,         \* loads_partial_json: i, counted from 1
    json_results,   \* loads_partial_json: results, each the type of the value and where it began
    malformed,      \* loads_partial_json: malformed
    loads_pc,       \* loads_partial_json: "idle", "loop", "returned" or the exception raised
    iterations,     \* loads_partial_json: iterations of the while loop so far
    fileMode,       \* setup_files: the mode of tests_path and of each entry under it
    script_keys,    \* setup_files: the keys of test_scripts
    same_path,      \* setup_files: files_path == tests_path
    perm_todo,      \* setup_files: the entries _recursive_iglob has still to yield
    perm_pc         \* setup_files: where the call is

telemetryVars == <<queueLen, enqueued, popHash, popLog, tpc, job, stat_now, avg_pop_interval,
                   raised, nCleanUps, todo, sawEmpty, cleared, hashBefore>>

decodeVars == <<json_string, json_i, json_results, malformed, loads_pc, iterations>>

chmodVars == <<fileMode, script_keys, same_path, perm_todo, perm_pc>>

\* what the jobs' own steps leave alone
apartVars == <<telemetryVars, decodeVars, chmodVars>>

jobVars == <<provisioned, userList, scriptPtr, fsInode, leaked, pc, jobs,
             exc, fd, lockMode, user_data, test_script_dir, test_scripts, results, error,
             started,
             killed, scriptLog, nReports, nPosts, nFiles, new_dir, old_test_script_dir>>

vars == <<apartVars, now, provisioned, userList, scriptPtr, fsInode, leaked, pc, jobs,
          exc, fd, lockMode, user_data, test_script_dir, test_scripts, results, error,
          started,
          killed, scriptLog, nReports, nPosts, nFiles, new_dir, old_test_script_dir>>

storeVars == <<userList, scriptPtr>>
fsVars == <<fsInode, leaked>>
lockVars == <<fd, lockMode>>
runVars == <<test_scripts, results, error, started, killed, scriptLog, nReports, nPosts, nFiles>>
writerVars == <<new_dir, old_test_script_dir>>

\* ------------------------------------------------------------------ helpers
Range(s) == {s[i] : i \in DOMAIN s}

Exists(p) == p /= NoDir /\ fsInode[p] /= NoInode

\* _copy_tree(src, dst): directories of src are yielded before its files and are
\* created with makedirs (which creates dst too); files are copied with copy2,
\* which needs dst to exist; nothing creates dst for a tree without entries.
CopyTreeRaises(shape, dst) == shape = "flat" /\ ~Exists(dst)

CopyTreeCreates(shape, dst) == shape = "nested" /\ ~Exists(dst)

\* error = e.message: the exceptions raised here are built-in ones of Python 3,
\* which have no attribute message.
HasMessage(e) == FALSE

\* except Exception as e: error = e.message
ExceptHandler(e) ==
    IF HasMessage(e) THEN [error |-> e, exc |-> "none"]
    ELSE [error |-> "None", exc |-> "AttributeError"]

\* flock: an exclusive lock conflicts with every other open description's lock,
\* a shared one with exclusive ones.
Holders(i, modes) == {w \in Workers : fd[w] = i /\ lockMode[w] \in modes}

LeakedOn(i, modes) == {l \in leaked : l[1] = i /\ l[2] \in modes}

\* The directories that still exist for someone: linked at a path, or open.
InodesInUse ==
    (Range(fsInode) \cup Range(fd) \cup {l[1] : l \in leaked}) \ {NoInode}

\* a directory newly created by makedirs
NewInode == CHOOSE i \in 1..(Cardinality(InodesInUse) + 1) :
                /\ i \notin InodesInUse
                /\ \A j \in 1..(i - 1) : j \in InodesInUse

FlockGranted(w, i, exclusive) ==
    LET modes == IF exclusive THEN {"sh", "ex"} ELSE {"ex"}
    IN Holders(i, modes) \ {w} = {} /\ LeakedOn(i, modes) = {}

\* no job is on a queue and POP_HASH holds nothing
InitTelemetry ==
    /\ queueLen = [q \in Queues |-> 0]
    /\ enqueued = 0
    /\ popHash = [q \in Queues |-> NoStat]
    /\ popLog = [q \in Queues |-> <<>>]
    /\ tpc = [w \in Runners |-> "idle"]
    /\ job = [w \in Runners |-> NoJob]
    /\ stat_now = [w \in Runners |-> NoField]
    /\ avg_pop_interval = [w \in Runners |-> NoAvg]
    /\ raised = [w \in Runners |-> FALSE]
    /\ nCleanUps = [w \in Runners |-> 0]
    /\ todo = [w \in Runners |-> <<>>]
    /\ sawEmpty = [w \in Runners |-> {}]
    /\ cleared = [w \in Runners |-> {}]
    /\ hashBefore = [w \in Runners |-> [q \in Queues |-> NoStat]]

\* no job has started
InitWorkers ==
    /\ now = 0
    /\ \E f \in [1..NumTesters -> BOOLEAN] :
          userList = [i \in 1..NumTesters |-> [id |-> i, username |-> f[i]]]
    /\ provisioned = Range(userList)
    /\ leaked = {}
    /\ pc = [w \in Workers |-> "idle"]
    /\ jobs = 0
    /\ exc = [w \in Workers |-> "none"]
    /\ fd = [w \in Workers |-> NoInode]
    /\ lockMode = [w \in Workers |-> "none"]
    /\ user_data = [r \in Runners |-> NoUser]
    /\ test_script_dir = [r \in Runners |-> NoDir]
    /\ test_scripts = [r \in Runners |-> <<>>]
    /\ results = [r \in Runners |-> <<>>]
    /\ error = [r \in Runners |-> "None"]
    /\ started = [r \in Runners |-> <<>>]
    /\ killed = [r \in Runners |-> {}]
    /\ scriptLog = [r \in Runners |-> <<>>]
    /\ nReports = [r \in Runners |-> 0]
    /\ nPosts = [r \in Runners |-> 0]
    /\ nFiles = [r \in Runners |-> 0]
    /\ new_dir = [w \in Writers |-> NoDir]
    /\ old_test_script_dir = [w \in Writers |-> NoDir]
    /\ InitTelemetry

\* loads_partial_json is not running
NoDecode ==
    /\ json_string = <<>>
    /\ json_i = 1
    /\ json_results = <<>>
    /\ malformed = FALSE
    /\ loads_pc = "idle"
    /\ iterations = 0

\* setup_files is not running
NoChmod ==
    /\ fileMode = [e \in Entries \cup {Root} |-> NoEntry]
    /\ script_keys = {}
    /\ same_path = FALSE
    /\ perm_todo = <<>>
    /\ perm_pc = "idle"

\* The store and the script directories as set up: no pointer, no directory.
Init ==
    /\ InitWorkers
    /\ NoDecode
    /\ NoChmod
    /\ scriptPtr = NoDir
    /\ fsInode = [p \in Paths |-> NoInode]

\* the clock advances
Tick ==
    /\ now < MaxTime
    /\ now' = now + 1
    /\ UNCHANGED <<apartVars, provisioned, storeVars, fsVars, pc, jobs, exc, lockVars, user_data,
                   test_script_dir, runVars, writerVars>>

\* ---------------------------------------------------------------- run_test
\* A read of the first element that leaves it in the list (lindex in place of blpop).
BlpopKeepsElement(list) == [value |-> Head(list), rest |-> list]

\* r.blpop(config.USER_LIST): the popped element and what is left of the list.
Blpop(list) == [value |-> Head(list), rest |-> Tail(list)]

\* A tester_user without try/finally: the push after the yield is skipped when the
\* with body raises.
PushesBackOnSuccessOnly(e) == e = "none"

\* tester_user: try: yield ... finally: r.rpush(...) -- the identity is pushed back
\* whatever exception e (or "none") leaves the with body.
TesterUserPushesBack(e) == TRUE

\* fd_lock / fd_open: the statement after the yield runs only when the with body
\* ends without an exception (there is no try/finally around the yield).
FdLockUnlocks(e) == e = "none"

FdOpenCloses(e) == e = "none"

\* The descriptor and lock state a worker leaves behind when the body run under
\* fd_open/fd_lock ends with exception e or normally ("none"); closing the
\* descriptor drops its lock.
LeftBehind(w, e) ==
    IF FdOpenCloses(e) THEN {}
    ELSE {<<fd[w], IF FdLockUnlocks(e) THEN "none" ELSE lockMode[w]>>}

Timeouts == {NoTimeout, 1}

\* test_scripts: an ordered mapping, file name k -> configured timeout
ScriptSpecs(n) == UNION {[1..k -> Timeouts] : k \in 0..n}

\* the job run_test arrives, with a test_scripts of at most n entries, while fewer
\* than budget jobs have been started
StartRunTest(r, n, budget) ==
    /\ pc[r] \in {"idle", "ended"}
    /\ jobs < budget
    /\ jobs' = jobs + 1
    /\ pc' = [pc EXCEPT ![r] = "blpop"]
    /\ exc' = [exc EXCEPT ![r] = "none"]
    /\ \E ts \in ScriptSpecs(n) : test_scripts' = [test_scripts EXCEPT ![r] = ts]
    /\ results' = [results EXCEPT ![r] = <<>>]
    /\ error' = [error EXCEPT ![r] = "None"]
    /\ started' = [started EXCEPT ![r] = <<>>]
    /\ killed' = [killed EXCEPT ![r] = {}]
    /\ scriptLog' = [scriptLog EXCEPT ![r] = <<>>]
    /\ nReports' = [nReports EXCEPT ![r] = 0]
    /\ nPosts' = [nPosts EXCEPT ![r] = 0]
    /\ nFiles' = [nFiles EXCEPT ![r] = 0]
    /\ test_script_dir' = [test_script_dir EXCEPT ![r] = NoDir]
    /\ UNCHANGED <<apartVars, now, provisioned, storeVars, fsVars, lockVars, user_data, writerVars>>

\* with tester_user() as user_data: blocks while the list is empty
TesterUserEnter(r) ==
    /\ pc[r] = "blpop"
    /\ userList /= <<>>
    /\ user_data' = [user_data EXCEPT ![r] = Blpop(userList).value]
    /\ userList' = Blpop(userList).rest
    /\ pc' = [pc EXCEPT ![r] = "setup_files"]
    /\ UNCHANGED <<apartVars, now, provisioned, scriptPtr, fsVars, jobs, exc, lockVars,
                   test_script_dir, runVars, writerVars>>

\* An exception e raised in the try body of run_test: the handler runs, then the
\* finally clause starts with clean_up_tests.
Raised(r, e) ==
    /\ pc' = [pc EXCEPT ![r] = "clean_up_tests"]
    /\ exc' = [exc EXCEPT ![r] = ExceptHandler(e).exc]
    /\ error' = [error EXCEPT ![r] = ExceptHandler(e).error]

\* setup_files up to the lookup of the script directory
SetupFiles(r) ==
    /\ pc[r] = "setup_files"
    /\ \/ \* files_path == tests_path: nothing is copied
          /\ pc' = [pc EXCEPT ![r] = "run_test_scripts"]
          /\ UNCHANGED <<exc, error>>
       \/ \* _copy_tree(files_path, tests_path) fails
          Raised(r, "OSError")
       \/ /\ pc' = [pc EXCEPT ![r] = "hget"]
          /\ UNCHANGED <<exc, error>>
    /\ UNCHANGED <<apartVars, now, provisioned, storeVars, fsVars, jobs, lockVars, user_data,
                   test_script_dir, test_scripts, results, started, killed, scriptLog,
                   nReports,
                   nPosts, nFiles, writerVars>>

\* copy_test_script_files: test_script_dir = _test_script_directory(...)
ReaderGetDir(r) ==
    /\ pc[r] = "hget"
    /\ test_script_dir' = [test_script_dir EXCEPT ![r] = scriptPtr]
    /\ pc' = [pc EXCEPT ![r] = "fd_open"]
    /\ UNCHANGED <<apartVars, now, provisioned, storeVars, fsVars, jobs, exc, lockVars, user_data,
                   runVars, writerVars>>

\* os.open(path): TypeError for None, FileNotFoundError for a missing directory
OpenError(p) ==
    IF p = NoDir THEN "TypeError"
    ELSE IF ~Exists(p) THEN "FileNotFoundError" ELSE "none"

\* copy_test_script_files: with fd_open(test_script_dir) as fd
ReaderOpen(r) ==
    /\ pc[r] = "fd_open"
    /\ IF OpenError(test_script_dir[r]) /= "none"
       THEN /\ Raised(r, OpenError(test_script_dir[r]))
            /\ UNCHANGED fd
       ELSE /\ fd' = [fd EXCEPT ![r] = fsInode[test_script_dir[r]]]
            /\ pc' = [pc EXCEPT ![r] = "fd_lock"]
            /\ UNCHANGED <<exc, error>>
    /\ UNCHANGED <<apartVars, now, provisioned, storeVars, fsVars, jobs, lockMode, user_data,
                   test_script_dir, test_scripts, results, started, killed, scriptLog,
                   nReports,
                   nPosts, nFiles, writerVars>>

\* copy_test_script_files: with fd_lock(fd, exclusive=False) -- blocks until granted
ReaderLock(r) ==
    /\ pc[r] = "fd_lock"
    /\ FlockGranted(r, fd[r], FALSE)
    /\ lockMode' = [lockMode EXCEPT ![r] = "sh"]
    /\ pc' = [pc EXCEPT ![r] = "copy_tree"]
    /\ UNCHANGED <<apartVars, now, provisioned, storeVars, fsVars, jobs, exc, fd, user_data,
                   test_script_dir, runVars, writerVars>>

\* copy_test_script_files: _copy_tree(test_script_dir, tests_path) ends (os.walk of a
\* path that is gone yields nothing), then the context managers exit; the rest of
\* setup_files follows.
ReaderCopyDone(r) ==
    /\ pc[r] = "copy_tree"
    /\ \E e \in {"none", "OSError"} :
          /\ e = "OSError" => Exists(test_script_dir[r])
          /\ leaked' = leaked \cup LeftBehind(r, e)
          /\ IF e = "none"
             THEN /\ pc' = [pc EXCEPT ![r] = "run_test_scripts"]
                  /\ UNCHANGED <<exc, error>>
             ELSE Raised(r, e)
    /\ fd' = [fd EXCEPT ![r] = NoInode]
    /\ lockMode' = [lockMode EXCEPT ![r] = "none"]
    /\ UNCHANGED <<apartVars, now, provisioned, storeVars, fsInode, jobs, user_data,
                   test_script_dir, test_scripts, results, started, killed, scriptLog,
                   nReports,
                   nPosts, nFiles, writerVars>>

\* ------------------------------------------------------- run_test_scripts
OutKinds == {"empty", "bytes"}     \* what the process wrote to a pipe: b'' or more

\* how one script's process behaves; when Popen fails there is no process
Behaviours ==
    {b \in [popen_fails : BOOLEAN, dur : 0..Forever, out : OutKinds, err : OutKinds] :
        b.popen_fails => (b.dur = 0 /\ b.out = "empty" /\ b.err = "empty")}

\* line 309: "timeout = None" replaces the loop variable before it is used
LocalTimeout(configured) == NoTimeout

\* a communicate that does not wait for the process
CommunicateReturnsAtOnce(dur, timeout) == "done"

\* proc.communicate(timeout=timeout)
Communicate(dur, timeout) ==
    IF timeout = NoTimeout THEN (IF dur = Forever THEN "blocked" ELSE "done")
    ELSE IF dur > timeout THEN "TimeoutExpired" ELSE "done"

\* loads_partial_json(stdout, dict) of what communicate returned: raw_decode of a
\* non-empty bytes object raises TypeError; '' and b'' skip the loop.
LoadsRaises(stdout) == stdout = "bytes"

create_test_script_result(file_name, stdout, stderr, timeout) ==
    [file_name |-> file_name,
     timeout |-> timeout,
     tests |-> <<>>,
     stderr |-> IF stderr = "empty" THEN "None" ELSE stderr,
     malformed |-> "None"]

\* One iteration of the loop of run_test_scripts: the result appended (if any), the
\* exception leaving the iteration, whether the process group was killed, whether
\* communicate never returns.
RunOneScript(file_name, configured, beh) ==
    LET timeout == LocalTimeout(configured)
        c == Communicate(beh.dur, timeout)
    IN  IF beh.popen_fails
        THEN \* except Exception as e: err += '\n\n{}'.format(e.message); out, err are ''
             [res |-> <<create_test_script_result(file_name, "empty",
                           IF HasMessage("OSError") THEN "str" ELSE "empty", timeout)>>,
              exc |-> ExceptHandler("OSError").exc, killed |-> FALSE, blocked |-> FALSE]
        ELSE IF c = "blocked"
        THEN [res |-> <<>>, exc |-> "none", killed |-> FALSE, blocked |-> TRUE]
        ELSE IF LoadsRaises(beh.out)
        THEN [res |-> <<>>, exc |-> "TypeError", killed |-> c = "TimeoutExpired",
              blocked |-> FALSE]
        ELSE [res |-> <<create_test_script_result(file_name, beh.out, beh.err, timeout)>>,
              exc |-> "none", killed |-> c = "TimeoutExpired", blocked |-> FALSE]

\* the loop's state after the iteration for entry k, whose process behaves as beh
AfterScript(k, scripts, beh, acc) ==
    LET o == RunOneScript(k, scripts[k], beh)
    IN  [results |-> acc.results \o o.res,
         exc |-> o.exc,
         started |-> Append(acc.started, k),
         killed |-> IF o.killed THEN acc.killed \cup {k} ELSE acc.killed,
         log |-> Append(acc.log, [file_name |-> k, ran |-> ~beh.popen_fails,
                                  dur |-> beh.dur]),
         blocked |-> o.blocked]

\* for file_name, timeout in test_scripts.items(): ... from entry k on: every way
\* the loop can end, for all the ways the processes can behave
RECURSIVE RunScriptsFrom(_, _, _)
RunScriptsFrom(k, scripts, acc) ==
    IF k > Len(scripts) THEN {acc}
    ELSE UNION {LET next == AfterScript(k, scripts, beh, acc)
                IN  IF next.exc /= "none" \/ next.blocked THEN {next}
                    ELSE RunScriptsFrom(k + 1, scripts, next) : beh \in Behaviours}

run_test_scripts(scripts) ==
    RunScriptsFrom(1, scripts,
                   [results |-> <<>>, exc |-> "none", started |-> <<>>, killed |-> {},
                    log |-> <<>>, blocked |-> FALSE])

\* run_test: results = run_test_scripts(cmd, test_scripts, tests_path)
RunTestScripts(r) ==
    /\ pc[r] = "run_test_scripts"
    /\ \E o \in run_test_scripts(test_scripts[r]) :
          /\ started' = [started EXCEPT ![r] = o.started]
          /\ killed' = [killed EXCEPT ![r] = o.killed]
          /\ scriptLog' = [scriptLog EXCEPT ![r] = o.log]
          /\ IF o.blocked
             THEN /\ pc' = [pc EXCEPT ![r] = "communicate"]
                  /\ UNCHANGED <<results, exc, error>>
             ELSE IF o.exc /= "none"
             THEN /\ Raised(r, o.exc)
                  /\ UNCHANGED results
             ELSE /\ results' = [results EXCEPT ![r] = o.results]
                  /\ pc' = [pc EXCEPT ![r] = "store_results"]
                  /\ UNCHANGED <<exc, error>>
    /\ UNCHANGED <<apartVars, now, provisioned, storeVars, fsVars, jobs, lockVars, user_data,
                   test_script_dir, test_scripts, nReports, nPosts, nFiles, writerVars>>

\* json.dump(results, f): bytes are not JSON serializable
DumpRaises(res) == \E i \in DOMAIN res : res[i].stderr = "bytes" \/ res[i].malformed = "bytes"

\* the statement after run_test_scripts: what is recorded of the processes of
\* run_test_scripts (started, killed, scriptLog) is about a call that is over
RunTestScriptsReturned(r) ==
    /\ started' = [started EXCEPT ![r] = <<>>]
    /\ killed' = [killed EXCEPT ![r] = {}]
    /\ scriptLog' = [scriptLog EXCEPT ![r] = <<>>]

\* run_test: store_results(results, markus_address, assignment_id, group_id, submission_id)
\* store_results: os.makedirs, open(..., 'w'), json.dump
StoreResults(r) ==
    /\ pc[r] = "store_results"
    /\ \/ \* os.makedirs or open fails: no file
          /\ Raised(r, "OSError")
          /\ UNCHANGED nFiles
       \/ /\ nFiles' = [nFiles EXCEPT ![r] = @ + 1]
          /\ IF DumpRaises(results[r])
             THEN Raised(r, "TypeError")
             ELSE /\ pc' = [pc EXCEPT ![r] = "clean_up_tests"]
                  /\ UNCHANGED <<exc, error>>
    /\ RunTestScriptsReturned(r)
    /\ UNCHANGED <<apartVars, now, provisioned, storeVars, fsVars, jobs, lockVars, user_data,
                   test_script_dir, test_scripts, results, nReports, nPosts, writerVars>>

\* clean_up_tests: subprocess.run(cmd) of a command line given as one string without
\* shell=True takes the whole string for the program's name: FileNotFoundError.
\* With test_username None nothing is run.
CleanUpTestsRaises(user) == user.username

\* finally: clean_up_tests(tests_path, test_username); an exception here skips report
CleanUpTests(r) ==
    /\ pc[r] = "clean_up_tests"
    /\ IF CleanUpTestsRaises(user_data[r])
       THEN /\ exc' = [exc EXCEPT ![r] = "FileNotFoundError"]
            /\ pc' = [pc EXCEPT ![r] = "rpush"]
       ELSE /\ pc' = [pc EXCEPT ![r] = "report"]
            /\ UNCHANGED exc
    /\ RunTestScriptsReturned(r)
    /\ UNCHANGED <<apartVars, now, provisioned, storeVars, fsVars, jobs, lockVars, user_data,
                   test_script_dir, test_scripts, results, error, nReports, nPosts, nFiles,
                   writerVars>>

\* report: urllib.parse.urljoin is called with this many positional arguments and
\* accepts at most UrljoinMaxArgs
UrljoinArgs == 7
UrljoinMaxArgs == 3

\* finally: report(...): the url is built before requests.post is reached
Report(r) ==
    /\ pc[r] = "report"
    /\ nReports' = [nReports EXCEPT ![r] = @ + 1]
    /\ IF UrljoinArgs > UrljoinMaxArgs
       THEN /\ exc' = [exc EXCEPT ![r] = "TypeError"]
            /\ UNCHANGED nPosts
       ELSE /\ nPosts' = [nPosts EXCEPT ![r] = @ + 1]
            /\ UNCHANGED exc
    /\ pc' = [pc EXCEPT ![r] = "rpush"]
    /\ UNCHANGED <<apartVars, now, provisioned, storeVars, fsVars, jobs, lockVars, user_data,
                   test_script_dir, test_scripts, results, error, started, killed,
                   scriptLog, nFiles,
                   writerVars>>

\* tester_user, after the yield: finally: r.rpush(config.USER_LIST, user_data); with
\* it run_test is left and its local variables are gone
TesterUserExit(r) ==
    /\ pc[r] = "rpush"
    /\ userList' = IF TesterUserPushesBack(exc[r])
                   THEN Append(userList, user_data[r]) ELSE userList
    /\ user_data' = [user_data EXCEPT ![r] = NoUser]
    /\ test_script_dir' = [test_script_dir EXCEPT ![r] = NoDir]
    /\ test_scripts' = [test_scripts EXCEPT ![r] = <<>>]
    /\ results' = [results EXCEPT ![r] = <<>>]
    /\ started' = [started EXCEPT ![r] = <<>>]
    /\ killed' = [killed EXCEPT ![r] = {}]
    /\ scriptLog' = [scriptLog EXCEPT ![r] = <<>>]
    /\ pc' = [pc EXCEPT ![r] = "clean_up"]
    /\ UNCHANGED <<apartVars, now, provisioned, scriptPtr, fsVars, jobs, exc, lockVars, error,
                   nReports, nPosts, nFiles, writerVars>>

\* clean_after: finally: clean_up(), then the job ends (exc tells how)
CleanUp(w) ==
    /\ pc[w] = "clean_up"
    /\ pc' = [pc EXCEPT ![w] = "ended"]
    /\ new_dir' = [v \in Writers |-> IF v = w THEN NoDir ELSE new_dir[v]]
    /\ old_test_script_dir' =
          [v \in Writers |-> IF v = w THEN NoDir ELSE old_test_script_dir[v]]
    /\ UNCHANGED <<apartVars, now, provisioned, storeVars, fsVars, jobs, exc, lockVars, user_data,
                   test_script_dir, runVars>>

\* ----------------------------------------------------- update_test_scripts
\* test_script_dir_name = "test_scripts_{}".format(int(time.time()))
StartUpdate(w) ==
    /\ pc[w] \in {"idle", "ended"}
    /\ jobs < MaxJobs
    /\ jobs' = jobs + 1
    /\ exc' = [exc EXCEPT ![w] = "none"]
    /\ new_dir' = [new_dir EXCEPT ![w] = now]
    /\ old_test_script_dir' = [old_test_script_dir EXCEPT ![w] = NoDir]
    /\ pc' = [pc EXCEPT ![w] = "copy_tree"]
    /\ UNCHANGED <<apartVars, now, provisioned, storeVars, fsVars, lockVars, user_data,
                   test_script_dir, runVars>>

\* _copy_tree(files_path, new_dir)
WriterCopy(w) ==
    /\ pc[w] = "copy_tree"
    /\ \E shape \in Shapes :
          IF CopyTreeRaises(shape, new_dir[w])
          THEN /\ exc' = [exc EXCEPT ![w] = "FileNotFoundError"]
               /\ pc' = [pc EXCEPT ![w] = "clean_up"]
               /\ UNCHANGED fsInode
          ELSE /\ fsInode' = IF CopyTreeCreates(shape, new_dir[w])
                             THEN [fsInode EXCEPT ![new_dir[w]] = NewInode]
                             ELSE fsInode
               /\ pc' = [pc EXCEPT ![w] = "hget"]
               /\ UNCHANGED exc
    /\ UNCHANGED <<apartVars, now, provisioned, storeVars, leaked, jobs, lockVars, user_data,
                   test_script_dir, runVars, writerVars>>

\* old_test_script_dir = _test_script_directory(markus_address, assignment_id)
WriterGetOld(w) ==
    /\ pc[w] = "hget"
    /\ old_test_script_dir' = [old_test_script_dir EXCEPT ![w] = scriptPtr]
    /\ pc' = [pc EXCEPT ![w] = "hset"]
    /\ UNCHANGED <<apartVars, now, provisioned, storeVars, fsVars, jobs, exc, lockVars, user_data,
                   test_script_dir, runVars, new_dir>>

\* _test_script_directory(markus_address, assignment_id, set_to=new_dir)
WriterSet(w) ==
    /\ pc[w] = "hset"
    /\ scriptPtr' = new_dir[w]
    /\ pc' = [pc EXCEPT ![w] = "fd_open"]
    /\ UNCHANGED <<apartVars, now, provisioned, userList, fsVars, jobs, exc, lockVars, user_data,
                   test_script_dir, runVars, writerVars>>

\* with fd_open(old_test_script_dir) as fd
WriterOpen(w) ==
    /\ pc[w] = "fd_open"
    /\ IF OpenError(old_test_script_dir[w]) /= "none"
       THEN /\ exc' = [exc EXCEPT ![w] = OpenError(old_test_script_dir[w])]
            /\ pc' = [pc EXCEPT ![w] = "clean_up"]
            /\ UNCHANGED fd
       ELSE /\ fd' = [fd EXCEPT ![w] = fsInode[old_test_script_dir[w]]]
            /\ pc' = [pc EXCEPT ![w] = "fd_lock"]
            /\ UNCHANGED exc
    /\ UNCHANGED <<apartVars, now, provisioned, storeVars, fsVars, jobs, lockMode, user_data,
                   test_script_dir, runVars, writerVars>>

\* with fd_lock(fd, exclusive=True) -- blocks until granted
WriterLock(w) ==
    /\ pc[w] = "fd_lock"
    /\ FlockGranted(w, fd[w], TRUE)
    /\ lockMode' = [lockMode EXCEPT ![w] = "ex"]
    /\ pc' = [pc EXCEPT ![w] = "rmtree"]
    /\ UNCHANGED <<apartVars, now, provisioned, storeVars, fsVars, jobs, exc, fd, user_data,
                   test_script_dir, runVars, writerVars>>

\* shutil.rmtree(old_test_script_dir, onerror=_ignore_missing_dir_error) ends: the
\* tree at the path is gone (a missing one is ignored), or another error is raised;
\* then the context managers exit.
WriterRmtreeDone(w) ==
    /\ pc[w] = "rmtree"
    /\ \E e \in {"none", "OSError"} :
          /\ e = "OSError" => Exists(old_test_script_dir[w])
          /\ leaked' = leaked \cup LeftBehind(w, e)
          /\ exc' = [exc EXCEPT ![w] = e]
          /\ fsInode' = IF e = "none"
                        THEN [fsInode EXCEPT ![old_test_script_dir[w]] = NoInode]
                        ELSE fsInode
    /\ fd' = [fd EXCEPT ![w] = NoInode]
    /\ lockMode' = [lockMode EXCEPT ![w] = "none"]
    /\ pc' = [pc EXCEPT ![w] = "clean_up"]
    /\ UNCHANGED <<apartVars, now, provisioned, storeVars, jobs, user_data,
                   test_script_dir, runVars, writerVars>>

\* ------------------------------------------------------- queue telemetry
\* A job is put on a queue.
Enqueue(q) ==
    /\ enqueued < MaxEnqueued
    /\ enqueued' = enqueued + 1
    /\ queueLen' = [queueLen EXCEPT ![q] = @ + 1]
    /\ UNCHANGED <<now, jobVars, decodeVars, chmodVars, popHash, popLog, tpc, job, stat_now, avg_pop_interval,
                   raised, nCleanUps, todo, sawEmpty, cleared, hashBefore>>

\* The rq worker w takes a job off a queue and calls its function: run_test starts
\* with update_pop_interval_stat(job.origin), update_test_scripts with its body.
Dequeue(w) ==
    /\ tpc[w] \in {"idle", "ended"}
    /\ \E q \in JobQueues, k \in JobKinds :
          /\ queueLen[q] > 0
          /\ queueLen' = [queueLen EXCEPT ![q] = @ - 1]
          /\ job' = [job EXCEPT ![w] = [kind |-> k, origin |-> q]]
          /\ tpc' = [tpc EXCEPT ![w] = IF k = "run_test" THEN "hsetnx" ELSE "func"]
    /\ stat_now' = [stat_now EXCEPT ![w] = NoField]
    /\ avg_pop_interval' = [avg_pop_interval EXCEPT ![w] = NoAvg]
    /\ raised' = [raised EXCEPT ![w] = FALSE]
    /\ nCleanUps' = [nCleanUps EXCEPT ![w] = 0]
    /\ todo' = [todo EXCEPT ![w] = <<>>]
    /\ sawEmpty' = [sawEmpty EXCEPT ![w] = {}]
    /\ cleared' = [cleared EXCEPT ![w] = {}]
    /\ hashBefore' = [hashBefore EXCEPT ![w] = [q \in Queues |-> NoStat]]
    /\ UNCHANGED <<now, jobVars, decodeVars, chmodVars, enqueued, popHash, popLog>>

\* update_pop_interval_stat: now = time.time(); r.hsetnx(POP_HASH, '<queue>_start', now)
UpdateHsetnx(w) ==
    /\ tpc[w] = "hsetnx"
    /\ stat_now' = [stat_now EXCEPT ![w] = now]
    /\ popHash' = [popHash EXCEPT ![job[w].origin].start = IF @ = NoField THEN now ELSE @]
    /\ tpc' = [tpc EXCEPT ![w] = "hset"]
    /\ UNCHANGED <<now, jobVars, decodeVars, chmodVars, queueLen, enqueued, popLog, job, avg_pop_interval,
                   raised, nCleanUps, todo, sawEmpty, cleared, hashBefore>>

\* update_pop_interval_stat: r.hset(POP_HASH, '<queue>_last', now)
UpdateHset(w) ==
    /\ tpc[w] = "hset"
    /\ popHash' = [popHash EXCEPT ![job[w].origin].last = stat_now[w]]
    /\ tpc' = [tpc EXCEPT ![w] = "hincrby"]
    /\ UNCHANGED <<now, jobVars, decodeVars, chmodVars, queueLen, enqueued, popLog, job, stat_now,
                   avg_pop_interval, raised, nCleanUps, todo, sawEmpty, cleared,
                   hashBefore>>

\* update_pop_interval_stat: r.hincrby(POP_HASH, '<queue>_count', 1); a missing
\* field counts as 0
UpdateHincrby(w) ==
    /\ tpc[w] = "hincrby"
    /\ popHash' = [popHash EXCEPT ![job[w].origin].count =
                                      (IF @ = NoField THEN 0 ELSE @) + 1]
    /\ popLog' = [popLog EXCEPT ![job[w].origin] = Append(@, stat_now[w])]
    /\ stat_now' = [stat_now EXCEPT ![w] = NoField]
    /\ tpc' = [tpc EXCEPT ![w] = "get_avg"]
    /\ UNCHANGED <<now, jobVars, decodeVars, chmodVars, queueLen, enqueued, job,
                   avg_pop_interval, raised, nCleanUps, todo, sawEmpty, cleared,
                   hashBefore>>

\* get_pop_interval_stat: start, last and count are each an hget; the one for last
\* names the field '<queue>_count'
get_pop_interval_stat(queue_name) ==
    [start |-> popHash[queue_name].start,
     last |-> popHash[queue_name].count,
     count |-> popHash[queue_name].count]

\* get_avg_pop_interval: float(None) raises TypeError, which returns None;
\* count -= 1; return (last-start) / count if count else 0
get_avg_pop_interval(queue_name) ==
    LET s == get_pop_interval_stat(queue_name)
        count == s.count - 1
    IN  IF s.start = NoField \/ s.last = NoField \/ s.count = NoField THEN NoAvg
        ELSE IF count /= 0 THEN [none |-> FALSE, num |-> s.last - s.start, den |-> count]
        ELSE [none |-> FALSE, num |-> 0, den |-> 1]

\* run_test: avg_pop_interval = get_avg_pop_interval(job.origin)
GetAvg(w) ==
    /\ tpc[w] = "get_avg"
    /\ avg_pop_interval' = [avg_pop_interval EXCEPT ![w] = get_avg_pop_interval(job[w].origin)]
    /\ tpc' = [tpc EXCEPT ![w] = "func"]
    /\ UNCHANGED <<now, jobVars, decodeVars, chmodVars, queueLen, enqueued, popHash, popLog, job, stat_now,
                   raised, nCleanUps, todo, sawEmpty, cleared, hashBefore>>

\* clean_after: try: func(*args, **kwargs) finally: clean_up()
CleanAfterCleans(func_raised) == TRUE

\* wrapper: the job's function returns or raises (its local variables are gone),
\* and clean_up is called
Func(w) ==
    /\ tpc[w] = "func"
    /\ avg_pop_interval' = [avg_pop_interval EXCEPT ![w] = NoAvg]
    /\ \E e \in BOOLEAN :
          /\ raised' = [raised EXCEPT ![w] = e]
          /\ IF CleanAfterCleans(e)
             THEN /\ nCleanUps' = [nCleanUps EXCEPT ![w] = @ + 1]
                  /\ todo' = [todo EXCEPT ![w] = QueueAll]
                  /\ hashBefore' = [hashBefore EXCEPT ![w] = popHash]
                  /\ tpc' = [tpc EXCEPT ![w] = "clean_up"]
             ELSE /\ tpc' = [tpc EXCEPT ![w] = "ended"]
                  /\ UNCHANGED <<nCleanUps, todo, hashBefore>>
    /\ UNCHANGED <<now, jobVars, decodeVars, chmodVars, queueLen, enqueued, popHash, popLog, job, stat_now,
                   sawEmpty, cleared>>

\* a clean_up that does not ask whether the queue is empty
ClearsEveryJobQueue(q, is_empty) == q /= FailedQueue

\* clean_up: if q != rq.queue.FailedQueue(): if q.is_empty():
ClearsQueue(q, is_empty) == q /= FailedQueue /\ is_empty

\* clean_up: the next queue of rq.Queue.all() is visited; after the last one
\* clean_up returns
CleanUpVisit(w) ==
    /\ tpc[w] = "clean_up"
    /\ todo[w] /= <<>>
    /\ LET q == Head(todo[w])
           is_empty == queueLen[q] = 0
       IN  /\ sawEmpty' = [sawEmpty EXCEPT ![w] = IF is_empty THEN @ \cup {q} ELSE @]
           /\ IF ClearsQueue(q, is_empty)
              THEN /\ tpc' = [tpc EXCEPT ![w] = "hdel"]
                   /\ UNCHANGED todo
              ELSE /\ todo' = [todo EXCEPT ![w] = Tail(@)]
                   /\ UNCHANGED tpc
    /\ UNCHANGED <<now, jobVars, decodeVars, chmodVars, queueLen, enqueued, popHash, popLog, job, stat_now,
                   avg_pop_interval, raised, nCleanUps, cleared, hashBefore>>

\* wrapper: clean_up has returned; the wrapper ends, by the exception of func if
\* it raised one
CleanUpReturn(w) ==
    /\ tpc[w] = "clean_up"
    /\ todo[w] = <<>>
    /\ tpc' = [tpc EXCEPT ![w] = "ended"]
    /\ job' = [job EXCEPT ![w] = NoJob]
    /\ sawEmpty' = [sawEmpty EXCEPT ![w] = {}]
    /\ cleared' = [cleared EXCEPT ![w] = {}]
    /\ hashBefore' = [hashBefore EXCEPT ![w] = [q \in Queues |-> NoStat]]
    /\ UNCHANGED <<now, jobVars, decodeVars, chmodVars, queueLen, enqueued, popHash, popLog, stat_now,
                   avg_pop_interval, raised, nCleanUps, todo>>

\* clear_pop_interval_stat: r.hdel(POP_HASH, '<queue>_start')
ClearHdel(w) ==
    /\ tpc[w] = "hdel"
    /\ popHash' = [popHash EXCEPT ![Head(todo[w])].start = NoField]
    /\ tpc' = [tpc EXCEPT ![w] = "hset_last"]
    /\ UNCHANGED <<now, jobVars, decodeVars, chmodVars, queueLen, enqueued, popLog, job, stat_now,
                   avg_pop_interval, raised, nCleanUps, todo, sawEmpty, cleared,
                   hashBefore>>

\* clear_pop_interval_stat: r.hset(POP_HASH, '<queue>_last', 0)
ClearHsetLast(w) ==
    /\ tpc[w] = "hset_last"
    /\ popHash' = [popHash EXCEPT ![Head(todo[w])].last = 0]
    /\ tpc' = [tpc EXCEPT ![w] = "hset_count"]
    /\ UNCHANGED <<now, jobVars, decodeVars, chmodVars, queueLen, enqueued, popLog, job, stat_now,
                   avg_pop_interval, raised, nCleanUps, todo, sawEmpty, cleared,
                   hashBefore>>

\* clear_pop_interval_stat: r.hset(POP_HASH, '<queue>_count', 0)
ClearHsetCount(w) ==
    /\ tpc[w] = "hset_count"
    /\ popHash' = [popHash EXCEPT ![Head(todo[w])].count = 0]
    /\ popLog' = [popLog EXCEPT ![Head(todo[w])] = <<>>]
    /\ cleared' = [cleared EXCEPT ![w] = @ \cup {Head(todo[w])}]
    /\ todo' = [todo EXCEPT ![w] = Tail(@)]
    /\ tpc' = [tpc EXCEPT ![w] = "clean_up"]
    /\ UNCHANGED <<now, jobVars, decodeVars, chmodVars, queueLen, enqueued, job, stat_now,
                   avg_pop_interval, raised, nCleanUps, sawEmpty, hashBefore>>

\* the steps of a worker between taking a job off a queue and the end of clean_after
Telemetry(w) ==
    \/ Dequeue(w)
    \/ UpdateHsetnx(w)
    \/ UpdateHset(w)
    \/ UpdateHincrby(w)
    \/ GetAvg(w)
    \/ Func(w)
    \/ CleanUpVisit(w)
    \/ CleanUpReturn(w)
    \/ ClearHdel(w)
    \/ ClearHsetLast(w)
    \/ ClearHsetCount(w)

\* ------------------------------------------------------- loads_partial_json
\* The characters of the modelled outputs: an object and an array bracket pair, a
\* digit, white space and a character that begins no JSON value.
Chars == {"{", "}", "[", "]", "1", " ", "x"}

JsonStrings == UNION {[1..n -> Chars] : n \in 0..MaxLen}

\* first position from k on that holds no white space (Len(s) + 1 if there is none)
RECURSIVE SkipSpace(_, _)
SkipSpace(s, k) == IF k <= Len(s) /\ s[k] = " " THEN SkipSpace(s, k + 1) ELSE k

\* first position from k on that holds no digit
RECURSIVE SkipDigits(_, _)
SkipDigits(s, k) == IF k <= Len(s) /\ s[k] = "1" THEN SkipDigits(s, k + 1) ELSE k

JSONDecodeError == [res |-> "JSONDecodeError", end |-> 0, type |-> "none"]
RecursionError == [res |-> "RecursionError", end |-> 0, type |-> "none"]
Value(type, end) == [res |-> "value", end |-> end, type |-> type]

\* decoder.raw_decode: the value that begins exactly at idx (no white space is
\* skipped before it) and the position after it. An object without members is
\* '{' white space '}'; an array is '[' white space ']' or holds a value; each
\* object or array entered is one more recursion of the scanner.
RECURSIVE raw_decode(_, _, _)
raw_decode(s, idx, depth) ==
    IF idx > Len(s) THEN JSONDecodeError
    ELSE IF s[idx] = "1" THEN Value("number", SkipDigits(s, idx))
    ELSE IF s[idx] \notin {"{", "["} THEN JSONDecodeError
    ELSE IF depth + 1 > MaxNesting THEN RecursionError
    ELSE LET j == SkipSpace(s, idx + 1)
         IN  IF s[idx] = "{"
             THEN IF j <= Len(s) /\ s[j] = "}" THEN Value("object", j + 1)
                  ELSE JSONDecodeError
             ELSE IF j <= Len(s) /\ s[j] = "]" THEN Value("array", j + 1)
             ELSE LET v == raw_decode(s, j, depth + 1)
                      k == SkipSpace(s, v.end)
                  IN  IF v.res /= "value" THEN v
                      ELSE IF k <= Len(s) /\ s[k] = "]" THEN Value("array", k + 1)
                      ELSE JSONDecodeError

\* str.strip() of s[a..b-1] is not empty
StripNotEmpty(s, a, b) == \E k \in a..(b - 1) : s[k] /= " "

\* if expected_type is None or isinstance(obj, expected_type)
IsExpected(type, expected_type) == expected_type = "None" \/ type = expected_type

\* create_test_script_result: loads_partial_json(stdout, dict) is called
LoadsCall ==
    /\ loads_pc = "idle"
    /\ loads_pc' = "loop"
    /\ \E str \in JsonStrings : json_string' = str
    /\ json_i' = 1
    /\ json_results' = <<>>
    /\ malformed' = FALSE
    /\ iterations' = 0
    /\ UNCHANGED <<now, jobVars, chmodVars, telemetryVars>>

\* one iteration of: while i < len(json_string)
LoadsIteration ==
    /\ loads_pc = "loop"
    /\ json_i <= Len(json_string)
    /\ iterations' = iterations + 1
    /\ LET d == raw_decode(json_string, json_i, 0)
       IN  /\ json_results' = IF d.res = "value" /\ IsExpected(d.type, "object")
                              THEN Append(json_results, [type |-> d.type, at |-> json_i])
                              ELSE json_results
           /\ malformed' =
                 CASE d.res = "value" ->
                          malformed \/ StripNotEmpty(json_string, json_i, d.end)
                   [] d.res = "JSONDecodeError" ->
                          malformed \/ StripNotEmpty(json_string, json_i, json_i + 1)
                   [] OTHER -> malformed
           /\ json_i' = CASE d.res = "value" -> d.end
                          [] d.res = "JSONDecodeError" -> json_i + 1
                          [] OTHER -> json_i
           /\ loads_pc' = IF d.res = "RecursionError" THEN "RecursionError" ELSE "loop"
    /\ UNCHANGED <<now, jobVars, chmodVars, telemetryVars, json_string>>

\* return results, malformed
LoadsReturn ==
    /\ loads_pc = "loop"
    /\ json_i > Len(json_string)
    /\ loads_pc' = "returned"
    /\ UNCHANGED <<now, jobVars, chmodVars, telemetryVars, json_string, json_i, json_results,
                   malformed, iterations>>

\* ------------------------------------------------------- setup_files: permissions
\* modes the copies (copy2 keeps the source's mode) or earlier runs left behind
SourceModes == {SourceMode600, SourceMode644, SourceMode777}

\* the trees tests_path may hold: an entry is there only if its directory is
Trees == {t \in [Entries \cup {Root} -> SourceModes \cup {NoEntry}] :
             /\ t[Root] /= NoEntry
             /\ \A e \in Entries : (t[e] /= NoEntry /\ Parent(e) /= Root)
                                        => t[Parent(e)] /= NoEntry}

\* _recursive_iglob(tests_path): os.walk yields, directory by directory from the
\* top, the subdirectories and then the files; the root itself is not yielded
WalkOrder == <<"d", "a", "d/b">>
_recursive_iglob(t) == SelectSeq(WalkOrder, LAMBDA e : t[e] /= NoEntry)

\* a setup_files that leaves every entry executable
KeepsExecuteBits(kind, in_test_scripts) == ModeExec

\* permissions = 0o755; if fd == 'f' and relpath not in test_scripts: permissions -= 0o111
Permissions(kind, in_test_scripts) ==
    IF kind = "f" /\ ~in_test_scripts THEN ModeExec - ExecBits ELSE ModeExec

\* run_test: setup_files(files_path, tests_path, test_scripts, ...) is called; the
\* copies have been made and tests_path holds some tree
SetupFilesCall ==
    /\ perm_pc = "idle"
    /\ \E t \in Trees : fileMode' = t
    /\ \E keys \in SUBSET Entries : script_keys' = keys
    /\ \E same \in BOOLEAN :
          /\ same_path' = same
          /\ perm_pc' = IF same THEN "walk" ELSE "chmod_tests_path"
    /\ perm_todo' = <<>>
    /\ UNCHANGED <<now, jobVars, telemetryVars, decodeVars>>

\* if files_path != tests_path: ... os.chmod(tests_path, 0o1770)
ChmodTestsPath ==
    /\ perm_pc = "chmod_tests_path"
    /\ fileMode' = [fileMode EXCEPT ![Root] = ModeTestsPath]
    /\ perm_pc' = "walk"
    /\ UNCHANGED <<now, jobVars, telemetryVars, decodeVars, script_keys, same_path,
                   perm_todo>>

\* for fd, file_or_dir in _recursive_iglob(tests_path): the walk begins
WalkBegin ==
    /\ perm_pc = "walk"
    /\ perm_todo' = _recursive_iglob(fileMode)
    /\ perm_pc' = "chmod"
    /\ UNCHANGED <<now, jobVars, telemetryVars, decodeVars, fileMode, script_keys,
                   same_path>>

\* os.chmod(file_or_dir, permissions) for the next entry of the walk
ChmodEntry ==
    /\ perm_pc = "chmod"
    /\ perm_todo /= <<>>
    /\ LET e == Head(perm_todo)
       IN  fileMode' = [fileMode EXCEPT
                           ![e] = Permissions(EntryKind(e), e \in script_keys)]
    /\ perm_todo' = Tail(perm_todo)
    /\ UNCHANGED <<now, jobVars, telemetryVars, decodeVars, script_keys, same_path,
                   perm_pc>>

\* the walk is over: setup_files returns
SetupFilesReturn ==
    /\ perm_pc = "chmod"
    /\ perm_todo = <<>>
    /\ perm_pc' = "returned"
    /\ UNCHANGED <<now, jobVars, telemetryVars, decodeVars, fileMode, script_keys,
                   same_path, perm_todo>>

\* ------------------------------------------------------- specifications
RunTest(r, n, budget) ==
    \/ StartRunTest(r, n, budget)
    \/ TesterUserEnter(r)
    \/ SetupFiles(r)
    \/ ReaderGetDir(r)
    \/ ReaderOpen(r)
    \/ ReaderLock(r)
    \/ ReaderCopyDone(r)
    \/ RunTestScripts(r)
    \/ StoreResults(r)
    \/ CleanUpTests(r)
    \/ Report(r)
    \/ TesterUserExit(r)
    \/ CleanUp(r)

UpdateTestScripts(w) ==
    \/ StartUpdate(w)
    \/ WriterCopy(w)
    \/ WriterGetOld(w)
    \/ WriterSet(w)
    \/ WriterOpen(w)
    \/ WriterLock(w)
    \/ WriterRmtreeDone(w)
    \/ CleanUp(w)

\* The version store: one staging run_test (without test scripts) against the
\* update_test_scripts workers, from the empty store.
Next ==
    \/ Tick
    \/ \E r \in Readers : RunTest(r, 0, MaxJobs)
    \/ \E w \in Writers : UpdateTestScripts(w)

Spec == Init /\ [][Next]_vars

\* The state after a first update_test_scripts has put a script directory in place.
InitStaged ==
    /\ InitWorkers
    /\ NoDecode
    /\ NoChmod
    /\ scriptPtr = 0
    /\ fsInode = [p \in Paths |-> IF p = 0 THEN 1 ELSE NoInode]

\* The tester pool: concurrent run_test workers, each with at most one test script.
NextPool == \E r \in Runners : RunTest(r, 1, MaxPoolJobs)

SpecPool == InitStaged /\ [][NextPool]_vars

\* One run_test worker with up to MaxScripts test scripts.
\* Queue telemetry does not depend on the identities: they have no username.
InitStat == Init /\ \A i \in DOMAIN userList : ~userList[i].username

\* Queue telemetry of one worker.
NextStat ==
    \/ Tick
    \/ \E q \in JobQueues : Enqueue(q)
    \/ \E w \in Readers : Telemetry(w)

SpecStat == InitStat /\ [][NextStat]_vars

\* Queue telemetry of concurrent workers.
NextStatPool ==
    \/ Tick
    \/ \E q \in JobQueues : Enqueue(q)
    \/ \E w \in Runners : Telemetry(w)

SpecStatPool == InitStat /\ [][NextStatPool]_vars

\* loads_partial_json on every string of at most MaxLen characters.
NextLoads == LoadsCall \/ LoadsIteration \/ LoadsReturn

SpecLoads == InitStat /\ [][NextLoads]_vars

\* The permissions setup_files sets, for every tree and every test_scripts.
NextChmod == SetupFilesCall \/ ChmodTestsPath \/ WalkBegin \/ ChmodEntry \/ SetupFilesReturn

SpecChmod == InitStat /\ [][NextChmod]_vars

NextRun == \E r \in Readers : RunTest(r, MaxScripts, MaxPoolJobs)

SpecRun == InitStaged /\ [][NextRun]_vars

\* ------------------------------------------------------------------ claims
Holding(r) == user_data[r] /= NoUser

Finished(r) == pc[r] \in {"idle", "ended"}

\* C1: no identity is held by two runs at once: between a run's blpop and its
\* rpush no other run holds the same identity, and it is not in the list either.
C1_IdentityHeldByOneRun ==
    /\ \A a, b \in Runners : (a /= b /\ Holding(a)) => user_data[a] /= user_data[b]
    /\ \A r \in Runners : Holding(r) => user_data[r] \notin Range(userList)

\* a run holds the only free identity while another run waits in blpop
C1_Witness ==
    \E a, b \in Runners :
        /\ a /= b
        /\ Holding(a) /\ pc[a] = "copy_tree"
        /\ pc[b] = "blpop" /\ userList = <<>>

\* C2: once every run_test has finished, normally or by an exception, the list
\* holds the provisioned identities again, each exactly once.
C2_PoolConserved ==
    (\A r \in Runners : Finished(r)) =>
        /\ Len(userList) = Cardinality(provisioned)
        /\ Range(userList) = provisioned

\* all runs have finished by an exception, one of them raised before store_results
\* was reached and one after it
C2_Witness ==
    /\ \A r \in Runners : pc[r] = "ended" /\ exc[r] /= "none"
    /\ jobs = MaxPoolJobs
    /\ \E a, b \in Runners : nFiles[a] = 0 /\ nFiles[b] = 1

\* C3: while a staging reader holds its shared lock, the directory it opened is
\* still the one on disk at the path it read from the pointer.
C3_ReaderDirectoryExists ==
    \A r \in Runners :
        lockMode[r] = "sh" =>
            /\ Exists(test_script_dir[r])
            /\ fsInode[test_script_dir[r]] = fd[r]

\* C4: when update_test_scripts has deleted its old directory, the pointer does not
\* name the deleted path: the directory the pointer names exists.
C4_PointerNotDeleted ==
    \A w \in Writers :
        (pc[w] = "clean_up" /\ exc[w] = "none" /\ old_test_script_dir[w] = scriptPtr)
            => Exists(scriptPtr)

\* C5: no update_test_scripts is inside its rmtree of a directory, holding its
\* exclusive lock, while a copy_test_script_files holds its shared lock and copies
\* the tree of that same directory.
C5_NoDeleteDuringCopy ==
    \A w \in Writers, r \in Runners :
        ~ /\ pc[w] = "rmtree" /\ lockMode[w] = "ex"
          /\ pc[r] = "copy_tree" /\ lockMode[r] = "sh"
          /\ old_test_script_dir[w] = test_script_dir[r]

\* C6: no descriptor and no lock acquired through fd_open and fd_lock outlives the
\* operation that acquired it, whether the operation returned or raised.
C6_LocksReleasedOnEveryExit == leaked = {}

\* the result recorded for the script named file_name, if there is one
ResultsOf(r, file_name) == {x \in Range(results[r]) : x.file_name = file_name}

\* C7: a script with a configured timeout whose process runs longer gets its
\* process group killed and its result's timeout field set; a script that ends
\* within its timeout has the timeout field null.
C7_TimeoutEnforced ==
    \A r \in Runners : \A i \in DOMAIN scriptLog[r] :
        LET l == scriptLog[r][i]
            t == test_scripts[r][l.file_name]
        IN  /\ (l.ran /\ t /= NoTimeout /\ l.dur > t) =>
                  /\ l.file_name \in killed[r]
                  /\ \A x \in ResultsOf(r, l.file_name) : x.timeout /= NoTimeout
            /\ (l.ran /\ (t = NoTimeout \/ l.dur <= t)) =>
                  \A x \in ResultsOf(r, l.file_name) : x.timeout = NoTimeout

\* C8: when a script's process cannot be started, no exception leaves
\* run_test_scripts, the error text is in that script's stderr, and every script of
\* test_scripts is run and has its result.
C8_FailureIsolated ==
    \A r \in Runners :
        (\E i \in DOMAIN scriptLog[r] : ~scriptLog[r][i].ran) =>
            /\ Len(started[r]) = Len(test_scripts[r])
            /\ Len(results[r]) = Len(test_scripts[r])
            /\ \A i \in DOMAIN scriptLog[r] :
                  ~scriptLog[r][i].ran =>
                      \A x \in ResultsOf(r, scriptLog[r][i].file_name) : x.stderr /= "None"

\* C9: a run_test that has ended has called report exactly once.
C9_ExactlyOneReport ==
    \A r \in Runners : pc[r] = "ended" => nReports[r] = 1

\* C10: a run_test that has ended has written exactly one result file.
C10_ExactlyOneResultFile ==
    \A r \in Runners : pc[r] = "ended" => nFiles[r] = 1

\* C11: when staging, script execution or result storage has raised inside
\* run_test, the error that clean_up_tests is reached with and that is handed to
\* report is not null: it holds the failure's message.
C11_ErrorReported ==
    \A r \in Runners :
        (pc[r] \in {"clean_up_tests", "report"} /\ exc[r] /= "none") => error[r] /= "None"

\* C12: update_test_scripts does not fail because its old directory is absent:
\* neither when there was no previous pointer (TypeError of os.open(None)) nor
\* when the directory the previous pointer named is gone (FileNotFoundError).
C12_MissingOldDirTolerated ==
    \A w \in Writers :
        pc[w] = "clean_up" =>
            /\ exc[w] /= "TypeError"
            /\ old_test_script_dir[w] /= NoDir => exc[w] /= "FileNotFoundError"

\* C13: the directory an update_test_scripts is about to copy into is not the one
\* the pointer names and has not been used before.
C13_FreshDirectoryName ==
    \A w \in Writers :
        pc[w] = "copy_tree" => (new_dir[w] /= scriptPtr /\ ~Exists(new_dir[w]))

\* C17: the scripts of a run are started in the iteration order of test_scripts,
\* each only after the process of the one before it has ended, and
\* run_test_scripts returns one result per script, in that order.
C17_SequentialInOrder ==
    \A r \in Runners :
        /\ started[r] = [i \in 1..Len(started[r]) |-> i]
        /\ \A i \in DOMAIN scriptLog[r] :
              i > 1 => (~scriptLog[r][i - 1].ran \/ scriptLog[r][i - 1].dur /= Forever)
        /\ pc[r] = "store_results" =>
              /\ Len(results[r]) = Len(test_scripts[r])
              /\ \A i \in DOMAIN results[r] : results[r][i].file_name = i

\* run_test_scripts has returned the results of a test_scripts of MaxScripts
\* entries, the first one with a timeout configured
C17_Witness ==
    \E r \in Runners :
        /\ pc[r] = "store_results"
        /\ Len(test_scripts[r]) = MaxScripts
        /\ Len(results[r]) = MaxScripts
        /\ test_scripts[r][1] /= NoTimeout

\* C14: clean_up is called exactly once after the body of each job, whether the
\* body returned or raised, and not before; when it returns it has cleared the
\* statistics of exactly the queues it found empty, the failed queue excepted, and
\* those of every other queue are as they were when it was called.
C14_CleanUpAfterEveryJob ==
    \A w \in Readers :
        /\ tpc[w] \in {"hsetnx", "hset", "hincrby", "get_avg", "func"} => nCleanUps[w] = 0
        /\ tpc[w] \in {"clean_up", "hdel", "hset_last", "hset_count", "ended"}
              => nCleanUps[w] = 1
        /\ (tpc[w] = "clean_up" /\ todo[w] = <<>>) =>
              /\ cleared[w] = sawEmpty[w] \ {FailedQueue}
              /\ \A q \in Queues :
                    popHash[q] = IF q \in cleared[w] THEN ClearedStat ELSE hashBefore[w][q]

\* clean_up returns after a body that raised: it has cleared an empty queue and
\* left alone a queue that still holds a job and has one pop recorded
C14_Witness ==
    \E w \in Readers :
        /\ tpc[w] = "clean_up" /\ todo[w] = <<>> /\ raised[w]
        /\ cleared[w] /= {}
        /\ \E q \in JobQueues : q \notin cleared[w] /\ queueLen[q] > 0 /\ popHash[q].count = 1

\* (tn - t1) / (n - 1) for pops at the times of log; 0 for one pop; None for none
AverageInterval(log) ==
    IF log = <<>> THEN NoAvg
    ELSE IF Len(log) = 1 THEN [none |-> FALSE, num |-> 0, den |-> 1]
    ELSE [none |-> FALSE, num |-> log[Len(log)] - log[1], den |-> Len(log) - 1]

\* the same number, or both None
SameAvg(x, y) == x.none = y.none /\ (~x.none => x.num * y.den = y.num * x.den)

\* C15: the average run_test gets from get_avg_pop_interval for its queue is
\* (tn - t1) / (n - 1) for the n >= 2 pops recorded since the last clear and 0 for
\* one pop; for a queue with no pop since its last clear the function returns None.
C15_PopIntervalMath ==
    /\ \A w \in Readers :
          (tpc[w] = "func" /\ job[w].kind = "run_test") =>
              SameAvg(avg_pop_interval[w], AverageInterval(popLog[job[w].origin]))
    /\ (\A w \in Readers : tpc[w] \in {"idle", "ended"}) =>
          \A q \in Queues : popLog[q] = <<>> => get_avg_pop_interval(q) = NoAvg

\* the worker is between the first and the last store step of
\* update_pop_interval_stat or clear_pop_interval_stat
InOperation(w) == tpc[w] \in {"hset", "hincrby", "hset_last", "hset_count"}

\* C20: when no update or clear of the pop statistics is in progress, each queue
\* has its burst start set exactly when its count is at least 1, and the average
\* computed from it is not a division by a negative number.
C20_StatsConsistent ==
    (\A w \in Runners : ~InOperation(w)) =>
        \A q \in Queues :
            /\ (popHash[q].start /= NoField) <=>
                  (popHash[q].count /= NoField /\ popHash[q].count >= 1)
            /\ get_avg_pop_interval(q).den >= 0

\* s from position k on is object literals and white space only
RECURSIVE ObjectsOnly(_, _)
ObjectsOnly(s, k) ==
    IF k > Len(s) THEN TRUE
    ELSE IF s[k] = " " THEN ObjectsOnly(s, k + 1)
    ELSE IF s[k] = "{"
    THEN LET j == SkipSpace(s, k + 1)
         IN  j <= Len(s) /\ s[j] = "}" /\ ObjectsOnly(s, j + 1)
    ELSE FALSE

\* the positions from k on where an object literal begins, in order
RECURSIVE ObjectStarts(_, _)
ObjectStarts(s, k) ==
    IF k > Len(s) THEN <<>>
    ELSE IF s[k] = "{" THEN <<k>> \o ObjectStarts(s, k + 1)
    ELSE ObjectStarts(s, k + 1)

\* C16: loads_partial_json(stdout, dict) returns, for a stdout of object literals
\* separated by white space only, exactly those objects in order and malformed
\* false; for a stdout holding a character that belongs to no JSON value,
\* malformed true; and never a value that is not an object.
C16_PartialJsonDecode ==
    loads_pc = "returned" =>
        /\ ObjectsOnly(json_string, 1) =>
              /\ ~malformed
              /\ json_results = [n \in DOMAIN ObjectStarts(json_string, 1) |->
                                    [type |-> "object", at |-> ObjectStarts(json_string, 1)[n]]]
        /\ (\E k \in DOMAIN json_string : json_string[k] = "x") => malformed
        /\ \A n \in DOMAIN json_results : json_results[n].type = "object"

\* C18: loads_partial_json raises nothing, and each iteration of its loop moves
\* the scan position on by at least one character, so that there are at most
\* len(json_string) iterations.
C18_LoadsNeverRaises ==
    /\ loads_pc \in {"idle", "loop", "returned"}
    /\ iterations <= json_i - 1
    /\ json_i <= Len(json_string) + 1

\* some execute bit is set in the mode
HasExec(mode) == \E bit \in {1, 8, 64} : (mode \div bit) % 2 = 1

\* C19: after setup_files with files_path != tests_path, tests_path has mode
\* 0o1770, every subdirectory and every file named by a key of test_scripts has
\* 0o755 and every other file 0o644, whatever the modes were before; no file
\* outside test_scripts is executable.
C19_PermissionsSet ==
    (perm_pc = "returned" /\ ~same_path) =>
        /\ fileMode[Root] = ModeTestsPath
        /\ \A e \in Entries :
              fileMode[e] /= NoEntry =>
                  /\ (EntryKind(e) = "d" \/ e \in script_keys) => fileMode[e] = ModeExec
                  /\ (EntryKind(e) = "f" /\ e \notin script_keys) =>
                        (fileMode[e] = ModeNoExec /\ ~HasExec(fileMode[e]))

\* setup_files has returned for a tree with all the entries, where the file in the
\* subdirectory is a test script and the file at the top is not
C19_Witness ==
    /\ perm_pc = "returned" /\ ~same_path
    /\ \A e \in Entries : fileMode[e] /= NoEntry
    /\ script_keys = {"d/b"}

====
